---- MODULE Spec2Model ----
(***************************************************************************)
(* Model of the Oracle agent (roles/ai-support-agent/files/agent/main.py): *)
(* the incident lifecycle driven by OracleAgent.handle_alert,              *)
(* OracleAgent._investigate_incident and the /investigate and /toggle-auto *)
(* slash commands.  Every coroutine is cut at its await points: one action *)
(* is the code that runs between two suspensions of the event loop.        *)
(***************************************************************************)
EXTENDS Integers, Sequences, FiniteSets, TLC

(* ---- bounds ---- *)
MaxTasks == 3       \* coroutines started: handle_alert calls and _investigate_incident tasks
MaxClock == 1       \* last clock second in which an alert is accepted
MaxCost == 1        \* largest cost (result['cost']) one invocation reports

(* ---- input sets ---- *)
Ids == 0..MaxClock                      \* INC-<%Y%m%d%H%M%S>: one id per clock second
Costs == 1..MaxCost                     \* result.get('cost', 0) of an invocation that reports a cost
InvOutputs == {"", "analysis"}          \* investigation['output']
DiagOutputs == {"", "findings"}         \* diagnostics['output']
RemOutputs == {"fixed"}                 \* remediation['output']

Terminal == {"resolved", "needs_review", "needs_action", "error"}

\* incident['thread']: None, or the place alert a's handler answers in (the
\* thread created on its message, or the message's channel when that failed).
NoThread == 0
ThreadOf(a) == a
ChannelOf(a) == a

\* What _investigate_incident keeps of a result dictionary of
\* ClaudeCodeExecutor.execute once its cost is added and its success is
\* branched on: result['output'], as long as a later line reads it.  A local
\* that is unassigned, or that no line reads any more, is "".
NoOutput == ""

VARIABLES
    clock,              \* datetime.now(timezone.utc) of the last handle_alert, in seconds
    auto_respond,       \* OracleAgent.auto_respond
    auto_remediate,     \* Config.auto_remediate
    total_cost_usd,     \* OracleAgent.total_cost_usd
    incidents,          \* the incident dictionaries ever created, in creation order
    active_incidents,   \* OracleAgent.active_incidents: id -> index in incidents (0: no key)
    handlers,           \* the handle_alert coroutines, one per accepted alert
    runs,               \* the _investigate_incident tasks
    reported,           \* history: per incident dictionary, sum of the costs its invocations reported
    rem,                \* the remediate_command coroutine
    view,               \* the ApprovalView that remediate_command creates
    presses,            \* the button callbacks of the view, one per press
    sessions,           \* SessionManager.sessions: channel id -> ChannelSession
    utcnow,             \* datetime.now(timezone.utc) as the session manager reads it, in minutes
    minted,             \* number of uuid.uuid4() tokens minted so far
    calls,              \* history: the session manager calls made, with what they returned
    turns,              \* the _handle_agent_conversation and new_session_command coroutines
    ledger,             \* history: per channel, the calls made on the session it stores
    environment,        \* Config.environment
    execution,          \* the ClaudeCodeExecutor.execute call under way, or the last one
    delivery            \* the sending of one successful response text, by a turn or by /run-task

approvalVars == <<rem, view, presses>>
turnVars == <<turns, ledger>>
sessionVars == <<sessions, utcnow, minted, calls, turnVars>>
executorVars == <<environment, execution>>

vars == <<clock, auto_respond, auto_remediate, total_cost_usd, incidents,
          active_incidents, handlers, runs, reported, approvalVars, sessionVars,
          executorVars, delivery>>

\* One _investigate_incident task.  incident_id is its argument, rec the
\* dictionary bound to `incident` at line 980 (0: not bound), investigation and
\* diagnostics the output texts of the two results (read last by line 1047 and
\* kept while that call is in flight), ctx the second argument of the
\* attempt_remediation call in flight.  History: alert is the alert whose
\* handle_alert created the task (0: /investigate did); issued lists the
\* invocations the run issued; invOk and remOk are investigation['success']
\* and remediation['success']; arAtDiag is config.auto_remediate when
\* run_diagnostics returned and branch its value when line 1042 read it; wrote
\* is the last status the run assigned.
NewRun(id, a) ==
    [pc |-> "start", incident_id |-> id, alert |-> a, rec |-> 0,
     investigation |-> NoOutput, diagnostics |-> NoOutput, ctx |-> NoOutput,
     issued |-> <<>>, invOk |-> "unset", remOk |-> "unset",
     arAtDiag |-> "unread", branch |-> "unread", wrote |-> "none"]

\* The locals no later line reads are released; the history stays.
Released(run) ==
    [run EXCEPT !.investigation = NoOutput, !.diagnostics = NoOutput, !.ctx = NoOutput]

(* ---- remediate_command and ApprovalView: values ---- *)
MaxPresses == 2     \* button presses one approval view receives

Users == {1, 2}     \* discord users who can press the buttons of the view
Invoker == 1        \* interaction.user of the /remediate interaction
NoUser == 0         \* None, as a responder or approver

\* remediate_command before it is called.  skip_approval is its argument;
\* approved and approver are its locals of lines 1372-1373 and 1403-1404
\* ("unset": not assigned).  History: analysisOk is analysis_result['success'];
\* read is view.approved as line 1399 read it; issued lists the invocations the call issued, each with its
\* disallowed_tools and skip_permissions arguments and whether `approved` was True when it was issued.
IdleRemediate ==
    [pc |-> "idle", skip_approval |-> FALSE, approved |-> "unset", approver |-> NoUser,
     analysisOk |-> "unset", read |-> "unread", issued |-> <<>>]

\* The view before line 1385 creates it.  approved and responder are the
\* attributes of lines 187-188 ("None", NoUser); listening: the message that
\* carries the view is sent, so its buttons dispatch and its timeout runs;
\* stopped: wait() no longer blocks; timer: the timeout of line 184, "armed",
\* "fired" once it elapsed (on_timeout is scheduled), "ran" once on_timeout
\* ran, "cancelled" by stop().  History: firstApproved and firstResponder are
\* the decision the first approve or deny press set.
NoView ==
    [created |-> FALSE, approved |-> "None", responder |-> NoUser, listening |-> FALSE,
     stopped |-> FALSE, timer |-> "armed", firstApproved |-> "None",
     firstResponder |-> NoUser]

(* ---- SessionManager: values ---- *)
MaxCalls == 3       \* calls of SessionManager methods
MaxTime == 3        \* last value of the clock the session manager reads
MaxTurns == 2       \* conversational turns and /new-session commands handled

\* SessionManager(session_timeout_minutes=30), line 600, in the time unit of
\* utcnow, which is 15 minutes.
session_timeout == 2

Threads == {1, 2}   \* channel ids

\* No entry of SessionManager.sessions for a channel.
NoSession == [session_id |-> 0, last_used |-> 0, message_count |-> 0, total_cost |-> 0]

\* The costs update_cost is called with: result.get('cost', 0) of a turn's
\* invocation that reports a cost (line 854).
Amounts == {1}

\* config.channels['ai_agent'], the channel whose messages are conversational turns.
AgentChannel == 1

\* History of the session a channel stores: by is the method that created
\* it, gets counts the get_or_create_session calls that returned its token,
\* amounts sums the amounts passed to update_cost while it was stored.
NoLedger == [by |-> "none", gets |-> 0, amounts |-> 0]

(* ---- ClaudeCodeExecutor: values ---- *)
MaxExecutions == 2  \* calls of execute

\* Values of the ENVIRONMENT variable that Config.from_env reads (config.py
\* line 73), and str.lower() on them.
Environments == {"dev", "DEV", "prod"}

Lower(s) == IF s = "DEV" THEN "dev" ELSE s

\* allow_edit_tools without the lower() of config.py line 38.
AllowEditToolsCaseSensitive == environment = "dev"

\* Config.allow_edit_tools, config.py lines 35-38.
allow_edit_tools == Lower(environment) = "dev"

\* ClaudeCodeExecutor._get_disallowed_tools, lines 231-241.
GetDisallowedTools ==
    IF allow_edit_tools
    THEN <<"AskUserQuestion">>
    ELSE <<"AskUserQuestion">> \o <<"Write", "Edit", "MultiEdit">>

\* The disallowed_tools arguments execute is called with: the default None
\* of line 266 (the empty list: line 315 tests truth), the list of
\* _get_disallowed_tools, and the literal of line 1355.
DisallowedLists == {<<>>, GetDisallowedTools, <<"Write", "Edit", "MultiEdit">>}

\* session_id arguments: None (0) and one token.
SessionIds == {0, 1}

\* timeout arguments, in seconds: the callers' 180 and the default of line 268.
Timeouts == {180, 450}

\* Texts are sequences of characters.  Standard outputs of the subprocess:
\* text that is not JSON, no output, text that is not JSON and longer than
\* the prefix line 383 keeps, a JSON object with the four fields, the empty
\* JSON object, and a JSON number.
NotJson == <<"n", "o", "t", " ", "j", "s", "o", "n">>
NoText == <<>>
PrefixLimit == 500
LongText == [i \in 1..(PrefixLimit + 1) |-> "x"]
FullObject == <<"{", "\"", "r", "e", "s", "u", "l", "t", "\"", ":", "\"", "o", "k", "\"", ",", "\"", "c", "o", "s", "t", "_", "u", "s", "d", "\"", ":", "1", ",", "\"", "s", "e", "s", "s", "i", "o", "n", "_", "i", "d", "\"", ":", "\"", "s", "1", "\"", ",", "\"", "n", "u", "m", "_", "t", "u", "r", "n", "s", "\"", ":", "3", "}">>
EmptyObject == <<"{", "}">>
JsonNumber == <<"4", "2">>

Stdouts == {NotJson, NoText, LongText, FullObject, EmptyObject, JsonNumber}
Stderrs == {NoText, <<"b", "o", "o", "m">>}
ReturnCodes == {0, 1}

\* json.loads on the texts of Stdouts: the decoded value, or JSONDecodeError.
\* A decoded object keeps its items as a function from keys to values.
JsonLoads(text) ==
    CASE text = FullObject ->
            [kind |-> "dict",
             items |-> ("result" :> <<"o", "k">>) @@ ("cost_usd" :> 1)
                       @@ ("session_id" :> <<"s", "1">>) @@ ("num_turns" :> 3)]
      [] text = EmptyObject -> [kind |-> "dict", items |-> [k \in {} |-> 0]]
      [] text = JsonNumber -> [kind |-> "int", value |-> 42]
      [] OTHER -> [kind |-> "JSONDecodeError"]

\* dict.get(key, default) on a decoded object.
Get(decoded, key, default) ==
    IF key \in DOMAIN decoded.items THEN decoded.items[key] ELSE default

\* The exceptions the statements of the try block raise; every one of them
\* is an instance of Exception.
Exceptions == {"TimeoutError", "FileNotFoundError", "PermissionError", "OSError",
               "AttributeError"}

IsException(e) == e \in Exceptions

\* No result: execute has not returned.
NoResult == [none |-> TRUE]

NoArgs ==
    [disallowed_tools |-> <<>>, skip_permissions |-> FALSE, session_id |-> 0,
     resume_session |-> FALSE, timeout |-> 450]

\* One execute call.  pc: "idle" before the first call, "spawning" at the await
\* of line 338, "communicating" at the await of line 345, "returned" or
\* "raised" once the call is over.  cmd is the list of lines 291-332;
\* system_prompt_file the temporary file of line 323 ("none", "exists",
\* "deleted"); process the subprocess ("none", "running", "exited").
\* History: calls counts the execute calls, spawns the
\* create_subprocess_exec calls of this one, completed says that communicate
\* returned, with returncode, stdout_text and stderr_text, and raised names
\* the exception the try block raised.
IdleExecution ==
    [pc |-> "idle", calls |-> 0, args |-> NoArgs, cmd |-> <<>>,
     system_prompt_file |-> "none", process |-> "none", spawns |-> 0,
     completed |-> FALSE, returncode |-> 0, stdout_text |-> NoText,
     stderr_text |-> NoText, raised |-> "none", result |-> NoResult]

\* ",".join(list) of a non-empty list.
RECURSIVE Join(_)
Join(list) ==
    IF Len(list) = 1 THEN list[1] ELSE list[1] \o "," \o Join(Tail(list))

\* Cmd with the resume flag added whatever resume_session is.
CmdAlwaysResumes(args, with_system_prompt) ==
    <<"claude", "--print", "--output-format", "json", "-r">>
    \o (IF args.session_id # 0
        THEN <<"--session-id", ToString(args.session_id)>> ELSE <<>>)
    \o <<"prompt">>

\* The command of lines 291-332.  No caller passes allowed_tools or
\* max_budget_usd, so lines 311-312 add nothing and line 319 adds the default.
Cmd(args, with_system_prompt) ==
    <<"claude", "--print", "--output-format", "json">>
    \o (IF args.resume_session /\ args.session_id # 0 THEN <<"-r">> ELSE <<>>)
    \o (IF args.session_id # 0
        THEN <<"--session-id", ToString(args.session_id)>> ELSE <<>>)
    \o (IF args.skip_permissions THEN <<"--dangerously-skip-permissions">> ELSE <<>>)
    \o <<"--max-turns", "15", "--model", "claude-opus-4-5-20250514">>
    \o (IF args.disallowed_tools # <<>>
        THEN <<"--disallowedTools", Join(args.disallowed_tools)>> ELSE <<>>)
    \o <<"--max-budget-usd", "1.0">>
    \o (IF with_system_prompt THEN <<"--system-prompt", "system_prompt_file.name">>
        ELSE <<>>)
    \o <<"prompt">>

(* ---- Sending a response text: values ---- *)
MaxDeliveries == 2  \* response texts sent

\* len(output) > 1900 of lines 860 and 1264, and the step of the slices.
ChunkLimit == 1900

\* chunks[:5] of a conversational turn (line 863) and chunks[:3] of /run-task
\* (line 1266), by flow.
MaxChunks == [turn |-> 5, task |-> 3]

\* A text of n characters; a character is written as its position, so that a
\* slice tells where it was taken.
Text(n) == [i \in 1..n |-> i]

\* Lengths of result['output']: one character, the limit, one more than the
\* limit, and texts that fill or exceed three and five chunks.
OutputLengths ==
    {1, ChunkLimit, ChunkLimit + 1, 3 * ChunkLimit, 3 * ChunkLimit + 1,
     5 * ChunkLimit, 5 * ChunkLimit + 1}

\* No response text is being sent.  flow is "turn" or "task"; chunks the list
\* of lines 862 and 1265; i the index of the loop; pc the send awaited
\* ("chunk", "marker", "single", "cost"), "done" or "raised".  History: count
\* counts the texts handled, sent lists the messages whose send returned.
NoDelivery ==
    [flow |-> "none", pc |-> "idle", count |-> 0, output |-> <<>>, cost |-> 0,
     chunks |-> <<>>, i |-> 0, sent |-> <<>>]

\* The state after construction, whatever the environment.
Constructed ==
    /\ clock = 0
    /\ auto_respond \in BOOLEAN
    /\ auto_remediate \in BOOLEAN
    /\ total_cost_usd = 0
    /\ incidents = <<>>
    /\ active_incidents = [i \in Ids |-> 0]
    /\ handlers = <<>>
    /\ runs = <<>>
    /\ reported = <<>>
    /\ rem = IdleRemediate
    /\ view = NoView
    /\ presses = <<>>
    /\ sessions = [t \in Threads |-> NoSession]
    /\ utcnow = 0
    /\ minted = 0
    /\ calls = <<>>
    /\ turns = <<>>
    /\ ledger = [t \in Threads |-> NoLedger]
    /\ execution = IdleExecution
    /\ delivery = NoDelivery

\* ENVIRONMENT is unset: the default of config.py lines 18 and 73.
Init ==
    /\ Constructed
    /\ environment = "dev"

\* ENVIRONMENT holds any of the values.
InitAnyEnvironment ==
    /\ Constructed
    /\ environment \in Environments

(* ---- toggle_auto_command ---- *)
ToggleAutoRespond ==
    /\ auto_respond' = ~auto_respond
    /\ UNCHANGED <<clock, auto_remediate, total_cost_usd, incidents,
                   active_incidents, handlers, runs, reported>>
    /\ UNCHANGED <<approvalVars, sessionVars, executorVars, delivery>>

ToggleAutoRemediate ==
    /\ auto_remediate' = ~auto_remediate
    /\ UNCHANGED <<clock, auto_respond, total_cost_usd, incidents,
                   active_incidents, handlers, runs, reported>>
    /\ UNCHANGED <<approvalVars, sessionVars, executorVars, delivery>>

(* ---- OracleAgent.handle_alert ---- *)
\* Lines 896-906, up to the suspension in message.create_thread.  now is the
\* clock second the call reads: that of the previous call or a later one.
\* Line 898 stores the new dictionary under its id, whatever is stored there.
\* History: accepted_auto is auto_respond as it was when the alert was accepted.
HandleAlert(now) ==
    /\ Len(incidents) + Len(runs) < MaxTasks
    /\ now >= clock
    /\ clock' = now
    /\ incidents' = Append(incidents,
           [id |-> now, status |-> "investigating", thread |-> NoThread, cost_usd |-> 0])
    /\ active_incidents' = [active_incidents EXCEPT ![now] = Len(incidents) + 1]
    /\ handlers' = Append(handlers, [pc |-> "create_thread", incident_id |-> now,
                                     accepted_auto |-> auto_respond])
    /\ reported' = Append(reported, 0)
    /\ UNCHANGED <<auto_respond, auto_remediate, total_cost_usd, runs>>
    /\ UNCHANGED <<approvalVars, sessionVars, executorVars, delivery>>

\* self.active_incidents[incident_id]['thread'] = thread: the dictionary is
\* looked up by id again, so the entry written is the one stored now.
SetThread(id, t) == [incidents EXCEPT ![active_incidents[id]].thread = t]

\* Lines 931-937: create the task, or send the "auto-respond is disabled"
\* notice; no line of handle_alert runs after either.
StartInvestigation(a) ==
    /\ handlers' = [handlers EXCEPT ![a].pc = "done"]
    /\ IF auto_respond
       THEN /\ Len(incidents) + Len(runs) < MaxTasks
            /\ runs' = Append(runs, NewRun(handlers[a].incident_id, a))
       ELSE UNCHANGED runs

\* message.create_thread returned: lines 914-917, suspended in thread.send.
CreateThreadReturns(a) ==
    /\ handlers[a].pc = "create_thread"
    /\ incidents' = SetThread(handlers[a].incident_id, ThreadOf(a))
    /\ handlers' = [handlers EXCEPT ![a].pc = "send_initial"]
    /\ UNCHANGED <<clock, auto_respond, auto_remediate, total_cost_usd,
                   active_incidents, runs, reported>>
    /\ UNCHANGED <<approvalVars, sessionVars, executorVars, delivery>>

\* message.create_thread raised: lines 926-929, then 931-937.
CreateThreadFails(a) ==
    /\ handlers[a].pc = "create_thread"
    /\ incidents' = SetThread(handlers[a].incident_id, ChannelOf(a))
    /\ StartInvestigation(a)
    /\ UNCHANGED <<clock, auto_respond, auto_remediate, total_cost_usd,
                   active_incidents, reported>>
    /\ UNCHANGED <<approvalVars, sessionVars, executorVars, delivery>>

\* The initial thread.send returned: lines 931-937.
SendInitialReturns(a) ==
    /\ handlers[a].pc = "send_initial"
    /\ StartInvestigation(a)
    /\ UNCHANGED <<clock, auto_respond, auto_remediate, total_cost_usd,
                   incidents, active_incidents, reported>>
    /\ UNCHANGED <<approvalVars, sessionVars, executorVars, delivery>>

\* The initial thread.send raised: lines 926-929, then 931-937.
SendInitialFails(a) ==
    /\ handlers[a].pc = "send_initial"
    /\ incidents' = SetThread(handlers[a].incident_id, ChannelOf(a))
    /\ StartInvestigation(a)
    /\ UNCHANGED <<clock, auto_respond, auto_remediate, total_cost_usd,
                   active_incidents, reported>>
    /\ UNCHANGED <<approvalVars, sessionVars, executorVars, delivery>>

(* ---- investigate_command ---- *)
\* incident_id = None, the default of line 1126.
NoIncidentId == -1

\* Lines 1133-1135: a task is created for any id that is a key of
\* active_incidents, whatever the incident's status and whatever tasks exist
\* for it; any other id, or none, only gets a reply.
InvestigateCommand(id) ==
    /\ IF id \in Ids /\ active_incidents[id] # 0
       THEN /\ Len(incidents) + Len(runs) < MaxTasks
            /\ runs' = Append(runs, NewRun(id, 0))
       ELSE UNCHANGED runs
    /\ UNCHANGED <<clock, auto_respond, auto_remediate, total_cost_usd,
                   incidents, active_incidents, handlers, reported>>
    /\ UNCHANGED <<approvalVars, sessionVars, executorVars, delivery>>

(* ---- OracleAgent._investigate_incident ---- *)
RunFrame ==
    UNCHANGED <<clock, auto_respond, auto_remediate, active_incidents, handlers,
                approvalVars, sessionVars, executorVars, delivery>>

\* The task starts: lines 980-989.  A missing entry returns at once.  With
\* incident['thread'] still None, thread.send raises inside the try block and
\* again inside the handler (line 1110), so the exception leaves the task.
RunStart(r) ==
    /\ runs[r].pc = "start"
    /\ LET i == active_incidents[runs[r].incident_id] IN
        runs' = [runs EXCEPT ![r] =
            IF i = 0 THEN [@ EXCEPT !.pc = "done"]
            ELSE IF incidents[i].thread = NoThread
                 THEN [@ EXCEPT !.rec = i, !.pc = "raised"]
                 ELSE [@ EXCEPT !.rec = i, !.pc = "send_step1"]]
    /\ RunFrame
    /\ UNCHANGED <<total_cost_usd, incidents, reported>>

\* Line 989 returned; line 991 issues the investigation invocation.
SendStep1Returns(r) ==
    /\ runs[r].pc = "send_step1"
    /\ runs' = [runs EXCEPT ![r].pc = "investigate",
                            ![r].issued = Append(@, "investigate")]
    /\ RunFrame
    /\ UNCHANGED <<total_cost_usd, incidents, reported>>

\* AddCost with the cost assigned instead of added.
AddCostOverwrites(r, c) == [incidents EXCEPT ![runs[r].rec].cost_usd = c]

\* incident['cost_usd'] += result.get('cost', 0), lines 992, 1024 and 1049.
AddCost(r, c) == [incidents EXCEPT ![runs[r].rec].cost_usd = @ + c]

\* investigate_alert returned: lines 992-1014, suspended in one of the two sends.
InvestigationReturns(r, s, o, c) ==
    /\ runs[r].pc = "investigate"
    /\ incidents' = AddCost(r, c)
    /\ reported' = [reported EXCEPT ![runs[r].rec] = @ + c]
    /\ runs' = [runs EXCEPT ![r].investigation = IF s THEN o ELSE NoOutput,
                            ![r].invOk = IF s THEN "true" ELSE "false",
                            ![r].pc = IF s THEN "send_analysis" ELSE "send_issue"]
    /\ RunFrame
    /\ UNCHANGED total_cost_usd

\* The "Investigation Issue" send returned: the return of line 1015.
SendIssueReturns(r) ==
    /\ runs[r].pc = "send_issue"
    /\ runs' = [runs EXCEPT ![r].pc = "done"]
    /\ RunFrame
    /\ UNCHANGED <<total_cost_usd, incidents, reported>>

\* The "Initial Analysis" send returned: line 1018.
SendAnalysisReturns(r) ==
    /\ runs[r].pc = "send_analysis"
    /\ runs' = [runs EXCEPT ![r].pc = "send_step2"]
    /\ RunFrame
    /\ UNCHANGED <<total_cost_usd, incidents, reported>>

\* Line 1018 returned; line 1020 issues the diagnostics invocation.
SendStep2Returns(r) ==
    /\ runs[r].pc = "send_step2"
    /\ runs' = [runs EXCEPT ![r].pc = "diagnose",
                            ![r].issued = Append(@, "diagnose")]
    /\ RunFrame
    /\ UNCHANGED <<total_cost_usd, incidents, reported>>

\* DiagnosticsReturns with a failed diagnostics ending the run, as a failed
\* investigation does.
DiagnosticsReturnsFatal(r, s, o, c) ==
    /\ runs[r].pc = "diagnose"
    /\ incidents' = [incidents EXCEPT ![runs[r].rec].cost_usd = @ + c]
    /\ reported' = [reported EXCEPT ![runs[r].rec] = @ + c]
    /\ runs' = [runs EXCEPT ![r].diagnostics = o,
                            ![r].arAtDiag = IF auto_remediate THEN "true" ELSE "false",
                            ![r].pc = IF s THEN "send_diag" ELSE "done"]
    /\ UNCHANGED <<clock, auto_respond, auto_remediate, active_incidents, handlers,
                   total_cost_usd>>
    /\ UNCHANGED <<approvalVars, sessionVars, executorVars, delivery>>

\* run_diagnostics returned: lines 1024-1039, suspended in one of the two
\* sends; whether it succeeded only selects the message sent.
DiagnosticsReturns(r, s, o, c) ==
    /\ runs[r].pc = "diagnose"
    /\ incidents' = AddCost(r, c)
    /\ reported' = [reported EXCEPT ![runs[r].rec] = @ + c]
    /\ runs' = [runs EXCEPT ![r].diagnostics = o,
                            ![r].arAtDiag = IF auto_remediate THEN "true" ELSE "false",
                            ![r].pc = "send_diag"]
    /\ RunFrame
    /\ UNCHANGED total_cost_usd

\* The diagnostics send returned: line 1042 reads config.auto_remediate, then
\* line 1043 or line 1074 sends.
SendDiagReturns(r) ==
    /\ runs[r].pc = "send_diag"
    /\ runs' = [runs EXCEPT ![r] =
           IF auto_remediate
           THEN [@ EXCEPT !.branch = "true", !.pc = "send_step3"]
           ELSE [Released(@) EXCEPT !.branch = "false", !.pc = "send_manual"]]
    /\ RunFrame
    /\ UNCHANGED <<total_cost_usd, incidents, reported>>

\* RemediationContext with the two operands of `or` exchanged.
RemediationContextInvestigationFirst(diagnostics, investigation) ==
    IF investigation # "" THEN investigation ELSE diagnostics

\* diagnostics.get('output', '') or investigation.get('output', ''), line 1047
RemediationContext(diagnostics, investigation) ==
    IF diagnostics # "" THEN diagnostics ELSE investigation

\* Line 1043 returned; line 1045 issues the remediation invocation.
SendStep3Returns(r) ==
    /\ runs[r].pc = "send_step3"
    /\ runs' = [runs EXCEPT ![r].pc = "remediate",
                            ![r].issued = Append(@, "remediate"),
                            ![r].ctx = RemediationContext(runs[r].diagnostics,
                                                          runs[r].investigation)]
    /\ RunFrame
    /\ UNCHANGED <<total_cost_usd, incidents, reported>>

\* attempt_remediation returned: lines 1049-1071, suspended in one of the two sends.
RemediationReturns(r, s, o, c) ==
    /\ runs[r].pc = "remediate"
    /\ incidents' = AddCost(r, c)
    /\ reported' = [reported EXCEPT ![runs[r].rec] = @ + c]
    /\ runs' = [runs EXCEPT ![r] =
           [Released(@) EXCEPT !.remOk = IF s THEN "true" ELSE "false",
                               !.pc = "send_rem"]]
    /\ RunFrame
    /\ UNCHANGED total_cost_usd

\* The status assignments of lines 1063, 1072 and 1082, each followed by
\* line 1085 and the suspension in the summary send of line 1088.
SetStatus(r, st) ==
    /\ incidents' = [incidents EXCEPT ![runs[r].rec].status = st]
    /\ total_cost_usd' = total_cost_usd + incidents[runs[r].rec].cost_usd
    /\ runs' = [runs EXCEPT ![r].pc = "send_summary", ![r].wrote = st]

\* The remediation result send returned: line 1063 or 1072, then 1085-1088.
SendRemReturns(r) ==
    /\ runs[r].pc = "send_rem"
    /\ SetStatus(r, IF runs[r].remOk = "true" THEN "resolved" ELSE "needs_review")
    /\ RunFrame
    /\ UNCHANGED reported

\* The "Manual Action Required" send returned: line 1082, then 1085-1088.
SendManualReturns(r) ==
    /\ runs[r].pc = "send_manual"
    /\ SetStatus(r, "needs_action")
    /\ RunFrame
    /\ UNCHANGED reported

\* The summary send returned: the task ends.
SendSummaryReturns(r) ==
    /\ runs[r].pc = "send_summary"
    /\ runs' = [runs EXCEPT ![r].pc = "done"]
    /\ RunFrame
    /\ UNCHANGED <<total_cost_usd, incidents, reported>>

TrySends == {"send_step1", "send_analysis", "send_issue", "send_step2", "send_diag",
             "send_step3", "send_rem", "send_manual", "send_summary"}

\* A thread.send inside the try block raised: line 1108, suspended in the
\* send of line 1110.
SendFails(r) ==
    /\ runs[r].pc \in TrySends
    /\ runs' = [runs EXCEPT ![r] = [Released(@) EXCEPT !.pc = "handler"]]
    /\ RunFrame
    /\ UNCHANGED <<total_cost_usd, incidents, reported>>

\* The handler's send returned: line 1117.
HandlerSendReturns(r) ==
    /\ runs[r].pc = "handler"
    /\ incidents' = [incidents EXCEPT ![runs[r].rec].status = "error"]
    /\ runs' = [runs EXCEPT ![r].pc = "failed", ![r].wrote = "error"]
    /\ RunFrame
    /\ UNCHANGED <<total_cost_usd, reported>>

\* The handler's send raised: nothing catches it, line 1117 is not reached.
HandlerSendFails(r) ==
    /\ runs[r].pc = "handler"
    /\ runs' = [runs EXCEPT ![r].pc = "raised"]
    /\ RunFrame
    /\ UNCHANGED <<total_cost_usd, incidents, reported>>

Next ==
    \/ ToggleAutoRespond
    \/ ToggleAutoRemediate
    \/ \E now \in Ids : HandleAlert(now)
    \/ \E a \in 1..Len(handlers) : CreateThreadReturns(a)
    \/ \E a \in 1..Len(handlers) : CreateThreadFails(a)
    \/ \E a \in 1..Len(handlers) : SendInitialReturns(a)
    \/ \E a \in 1..Len(handlers) : SendInitialFails(a)
    \/ \E id \in Ids \cup {NoIncidentId} : InvestigateCommand(id)
    \/ \E r \in 1..Len(runs) : RunStart(r)
    \/ \E r \in 1..Len(runs) : SendStep1Returns(r)
    \/ \E r \in 1..Len(runs), s \in BOOLEAN, o \in InvOutputs, c \in Costs :
           InvestigationReturns(r, s, o, c)
    \/ \E r \in 1..Len(runs) : SendIssueReturns(r)
    \/ \E r \in 1..Len(runs) : SendAnalysisReturns(r)
    \/ \E r \in 1..Len(runs) : SendStep2Returns(r)
    \/ \E r \in 1..Len(runs), s \in BOOLEAN, o \in DiagOutputs, c \in Costs :
           DiagnosticsReturns(r, s, o, c)
    \/ \E r \in 1..Len(runs) : SendDiagReturns(r)
    \/ \E r \in 1..Len(runs) : SendStep3Returns(r)
    \/ \E r \in 1..Len(runs), s \in BOOLEAN, o \in RemOutputs, c \in Costs :
           RemediationReturns(r, s, o, c)
    \/ \E r \in 1..Len(runs) : SendRemReturns(r)
    \/ \E r \in 1..Len(runs) : SendManualReturns(r)
    \/ \E r \in 1..Len(runs) : SendSummaryReturns(r)
    \/ \E r \in 1..Len(runs) : SendFails(r)
    \/ \E r \in 1..Len(runs) : HandlerSendReturns(r)
    \/ \E r \in 1..Len(runs) : HandlerSendFails(r)

Spec == Init /\ [][Next]_vars

(* ---- remediate_command ---- *)
ApprovalFrame ==
    UNCHANGED <<clock, auto_respond, auto_remediate, incidents, active_incidents,
                handlers, runs, reported, sessionVars, executorVars, delivery>>

\* /remediate is invoked: line 1323, suspended in interaction.response.defer().
RemediateCommand(skip) ==
    /\ rem.pc = "idle"
    /\ rem' = [rem EXCEPT !.pc = "defer", !.skip_approval = skip]
    /\ ApprovalFrame
    /\ UNCHANGED <<total_cost_usd, view, presses>>

\* defer() returned: line 1348, suspended in the "Oracle Analyzing" send.
RemDeferReturns ==
    /\ rem.pc = "defer"
    /\ rem' = [rem EXCEPT !.pc = "send_analyzing"]
    /\ ApprovalFrame
    /\ UNCHANGED <<total_cost_usd, view, presses>>

\* One claude_executor.execute call of remediate_command, as issued.
Invocation(kind, disallowed_tools, skip_permissions) ==
    [kind |-> kind, disallowed_tools |-> disallowed_tools,
     skip_permissions |-> skip_permissions,
     approved |-> (rem.approved = "True")]

\* The send of line 1348 returned: lines 1353-1359 issue the analysis.
RemSendAnalyzingReturns ==
    /\ rem.pc = "send_analyzing"
    /\ rem' = [rem EXCEPT !.pc = "analyze",
                          !.issued =
                              Append(@, Invocation("analysis",
                                                   <<"Write", "Edit", "MultiEdit">>, TRUE))]
    /\ ApprovalFrame
    /\ UNCHANGED <<total_cost_usd, view, presses>>

\* ApprovalView(...), lines 1385-1389 and 183-188.
NewView == [NoView EXCEPT !.created = TRUE]

\* RemAnalysisReturns with skip_approval ignored: approval is always requested.
RemAnalysisReturnsAlwaysAsks(s, c) ==
    /\ rem.pc = "analyze"
    /\ total_cost_usd' = total_cost_usd + c
    /\ IF ~s
       THEN /\ rem' = [rem EXCEPT !.analysisOk = "false", !.pc = "send_failed"]
            /\ UNCHANGED view
       ELSE /\ rem' = [rem EXCEPT !.analysisOk = "true", !.pc = "send_approval"]
            /\ view' = NewView
    /\ UNCHANGED <<clock, auto_respond, auto_remediate, incidents, active_incidents,
                   handlers, runs, reported, sessionVars, executorVars, delivery,
                   presses>>

\* The analysis returned: lines 1360-1394.  A failed analysis sends the
\* failure (1363); with skip_approval lines 1372-1373 approve for the invoker
\* and line 1421 sends; otherwise the view is created and line 1391 sends it.
RemAnalysisReturns(s, c) ==
    /\ rem.pc = "analyze"
    /\ total_cost_usd' = total_cost_usd + c
    /\ IF ~s
       THEN /\ rem' = [rem EXCEPT !.analysisOk = "false", !.pc = "send_failed"]
            /\ UNCHANGED view
       ELSE IF rem.skip_approval
            THEN /\ rem' = [rem EXCEPT !.analysisOk = "true", !.approved = "True",
                                       !.approver = Invoker, !.pc = "send_executing"]
                 /\ UNCHANGED view
            ELSE /\ rem' = [rem EXCEPT !.analysisOk = "true", !.pc = "send_approval"]
                 /\ view' = NewView
    /\ ApprovalFrame
    /\ UNCHANGED presses

\* The "Analysis failed" send returned: the return of line 1366.
RemSendFailedReturns ==
    /\ rem.pc = "send_failed"
    /\ rem' = [rem EXCEPT !.pc = "done"]
    /\ ApprovalFrame
    /\ UNCHANGED <<total_cost_usd, view, presses>>

\* The send of line 1391 returned: the view listens, line 1397 waits.
RemSendApprovalReturns ==
    /\ rem.pc = "send_approval"
    /\ rem' = [rem EXCEPT !.pc = "wait"]
    /\ view' = [view EXCEPT !.listening = TRUE]
    /\ ApprovalFrame
    /\ UNCHANGED <<total_cost_usd, presses>>

\* view.wait() returned: lines 1399-1407, with no suspension between the
\* reads of view.approved and view.responder.
RemWaitReturns ==
    /\ rem.pc = "wait"
    /\ view.stopped
    /\ rem' = IF view.approved = "None"
              THEN [rem EXCEPT !.read = "None", !.pc = "send_timeout"]
              ELSE [rem EXCEPT !.read = view.approved,
                               !.approved = view.approved,
                               !.approver = view.responder,
                               !.pc = IF view.approved = "True"
                                      THEN "send_executing" ELSE "done"]
    /\ ApprovalFrame
    /\ UNCHANGED <<total_cost_usd, view, presses>>

\* The "Approval timed out" send returned: the return of line 1401.
RemSendTimeoutReturns ==
    /\ rem.pc = "send_timeout"
    /\ rem' = [rem EXCEPT !.pc = "done"]
    /\ ApprovalFrame
    /\ UNCHANGED <<total_cost_usd, view, presses>>

\* The send of line 1421 returned: lines 1424-1430 issue the execution.
RemSendExecutingReturns ==
    /\ rem.pc = "send_executing"
    /\ rem' = [rem EXCEPT !.pc = "execute",
                          !.issued =
                              Append(@, Invocation("execution", GetDisallowedTools, TRUE))]
    /\ ApprovalFrame
    /\ UNCHANGED <<total_cost_usd, view, presses>>

\* The execution returned: lines 1431-1440, suspended in the result send.
RemExecutionReturns(s, c) ==
    /\ rem.pc = "execute"
    /\ total_cost_usd' = total_cost_usd + c
    /\ rem' = [rem EXCEPT !.pc = "send_result"]
    /\ ApprovalFrame
    /\ UNCHANGED <<view, presses>>

\* The result send returned: remediate_command ends.
RemSendResultReturns ==
    /\ rem.pc = "send_result"
    /\ rem' = [rem EXCEPT !.pc = "done"]
    /\ ApprovalFrame
    /\ UNCHANGED <<total_cost_usd, view, presses>>

RemSends == {"defer", "send_analyzing", "send_failed", "send_approval", "send_timeout",
             "send_executing", "send_result"}

\* A transport call of remediate_command raised: nothing in the command
\* catches it, so the exception ends the command.
RemSendRaises ==
    /\ rem.pc \in RemSends
    /\ rem' = [rem EXCEPT !.pc = "raised"]
    /\ ApprovalFrame
    /\ UNCHANGED <<total_cost_usd, view, presses>>

(* ---- ApprovalView ---- *)
\* A button of a listening view that is not stopped is pressed by user u.
\* approve_button (192-194) and deny_button (202-204) assign approved and
\* responder and suspend in send_message; details_button (212) only sends.
Press(kind, u) ==
    /\ view.listening
    /\ ~view.stopped
    /\ Len(presses) < MaxPresses
    /\ presses' = Append(presses, [kind |-> kind, user |-> u, pc |-> "send"])
    /\ view' = IF kind = "details" THEN view
               ELSE LET d == IF kind = "approve" THEN "True" ELSE "False" IN
                    [view EXCEPT !.approved = d,
                                 !.responder = u,
                                 !.firstApproved = IF @ = "None" THEN d ELSE @,
                                 !.firstResponder =
                                     IF view.firstApproved = "None" THEN u ELSE @]
    /\ ApprovalFrame
    /\ UNCHANGED <<total_cost_usd, rem>>

\* self.stop(), lines 198 and 208: wait() is released and the timeout that
\* has not elapsed is cancelled.
Stop ==
    [view EXCEPT !.stopped = TRUE,
                 !.timer = IF @ = "armed" THEN "cancelled" ELSE @]

\* The send_message of a button callback returned: approve and deny call stop().
ButtonSendReturns(p) ==
    /\ presses[p].pc = "send"
    /\ presses' = [presses EXCEPT ![p].pc = "done"]
    /\ view' = IF presses[p].kind = "details" THEN view ELSE Stop
    /\ ApprovalFrame
    /\ UNCHANGED <<total_cost_usd, rem>>

\* The send_message of a button callback raised: stop() is not reached.
ButtonSendRaises(p) ==
    /\ presses[p].pc = "send"
    /\ presses' = [presses EXCEPT ![p].pc = "raised"]
    /\ ApprovalFrame
    /\ UNCHANGED <<total_cost_usd, rem, view>>

\* TimeoutElapses for a timeout that runs only once a button was pressed.
TimeoutElapsesAfterPress ==
    /\ view.listening
    /\ ~view.stopped
    /\ view.timer = "armed"
    /\ Len(presses) > 0
    /\ view' = [view EXCEPT !.stopped = TRUE, !.timer = "fired"]
    /\ ApprovalFrame
    /\ UNCHANGED <<total_cost_usd, rem, presses>>

\* The timeout of line 184 elapses on a view that is not stopped: wait() is
\* released and on_timeout is scheduled.
TimeoutElapses ==
    /\ view.listening
    /\ ~view.stopped
    /\ view.timer = "armed"
    /\ view' = [view EXCEPT !.stopped = TRUE, !.timer = "fired"]
    /\ ApprovalFrame
    /\ UNCHANGED <<total_cost_usd, rem, presses>>

\* OnTimeout with the default decision being approval.
OnTimeoutApproves ==
    /\ view.timer = "fired"
    /\ view' = [view EXCEPT !.approved = "True", !.timer = "ran"]
    /\ ApprovalFrame
    /\ UNCHANGED <<total_cost_usd, rem, presses>>

\* ApprovalView.on_timeout, line 218.
OnTimeout ==
    /\ view.timer = "fired"
    /\ view' = [view EXCEPT !.approved = "False", !.timer = "ran"]
    /\ ApprovalFrame
    /\ UNCHANGED <<total_cost_usd, rem, presses>>

NextRemediate ==
    \/ \E skip \in BOOLEAN : RemediateCommand(skip)
    \/ RemDeferReturns
    \/ RemSendAnalyzingReturns
    \/ \E s \in BOOLEAN, c \in {0} \cup Costs : RemAnalysisReturns(s, c)
    \/ RemSendFailedReturns
    \/ RemSendApprovalReturns
    \/ RemWaitReturns
    \/ RemSendTimeoutReturns
    \/ RemSendExecutingReturns
    \/ \E s \in BOOLEAN, c \in {0} \cup Costs : RemExecutionReturns(s, c)
    \/ RemSendResultReturns
    \/ RemSendRaises
    \/ \E kind \in {"approve", "deny", "details"}, u \in Users : Press(kind, u)
    \/ \E p \in 1..Len(presses) : ButtonSendReturns(p)
    \/ \E p \in 1..Len(presses) : ButtonSendRaises(p)
    \/ TimeoutElapses
    \/ OnTimeout

RemediateSpec == InitAnyEnvironment /\ [][NextRemediate]_vars

\* The event loop runs what is ready: the timeout of a view that nothing
\* stopped elapses, the scheduled on_timeout runs, and the command released
\* from view.wait() resumes.  Presses and the returns of sends and
\* invocations are left to the environment.
RemediateLiveSpec ==
    /\ Init
    /\ [][NextRemediate]_vars
    /\ WF_vars(TimeoutElapses)
    /\ WF_vars(OnTimeout)
    /\ WF_vars(RemWaitReturns)

(* ---- SessionManager ---- *)
SessionFrame ==
    UNCHANGED <<clock, auto_respond, auto_remediate, total_cost_usd, incidents,
                active_incidents, handlers, runs, reported, approvalVars, turnVars,
                executorVars, delivery>>

\* Time passes.
Tick ==
    /\ utcnow < MaxTime
    /\ utcnow' = utcnow + 1
    /\ SessionFrame
    /\ UNCHANGED <<sessions, minted, calls>>

\* Uuid4 returning the token minted first, again.
Uuid4Repeats(n) == 1

\* str(uuid.uuid4()), lines 150 and 160: a token no earlier call returned;
\* n tokens were minted before.
Uuid4(n) == n + 1

\* LiveAt with a session whose age equals the timeout still live.
LiveAtInclusive(session, t) ==
    /\ session # NoSession
    /\ t - session.last_used <= session_timeout

\* Lines 140-144: the channel has a session and age_minutes < self.session_timeout.
LiveAt(session, t) ==
    /\ session # NoSession
    /\ t - session.last_used < session_timeout

\* Resumed that leaves message_count as it is.
ResumedUncounted(session, t) == [session EXCEPT !.last_used = t]

\* Lines 145-146.
Resumed(session, t) ==
    [session EXCEPT !.last_used = t, !.message_count = @ + 1]

\* ChannelSession(session_id=..., channel_id=..., message_count=1), lines
\* 151-155 and 161-165: last_used defaults to the time of construction and
\* total_cost to 0.
FreshSession(token, t) ==
    [session_id |-> token, last_used |-> t, message_count |-> 1, total_cost |-> 0]

\* One call as the history keeps it: the method, its channel, the amount
\* passed to update_cost (0 for the other methods), what it returned (token 0:
\* the method returns no token), the time it read, and the channel's session
\* before and after it.
Call(op, thread, amount, token, is_resume, after) ==
    [op |-> op, thread |-> thread, amount |-> amount, token |-> token,
     is_resume |-> is_resume, at |-> utcnow, before |-> sessions[thread],
     after |-> after]

\* SessionManager.get_or_create_session, lines 138-156.
GetOrCreateSession(t) ==
    /\ Len(calls) < MaxCalls
    /\ IF LiveAt(sessions[t], utcnow)
       THEN /\ sessions' = [sessions EXCEPT ![t] = Resumed(@, utcnow)]
            /\ UNCHANGED minted
            /\ calls' = Append(calls, Call("get_or_create_session", t, 0,
                                           sessions[t].session_id, TRUE,
                                           Resumed(sessions[t], utcnow)))
       ELSE /\ sessions' = [sessions EXCEPT ![t] = FreshSession(Uuid4(minted), utcnow)]
            /\ minted' = minted + 1
            /\ calls' = Append(calls, Call("get_or_create_session", t, 0,
                                           Uuid4(minted), FALSE,
                                           FreshSession(Uuid4(minted), utcnow)))
    /\ SessionFrame
    /\ UNCHANGED utcnow

\* ResetSession that keeps the token of a session that is still live.
ResetSessionKeepsLive(t) ==
    /\ Len(calls) < MaxCalls
    /\ LET token == IF LiveAt(sessions[t], utcnow) THEN sessions[t].session_id
                    ELSE Uuid4(minted) IN
        /\ sessions' = [sessions EXCEPT ![t] = FreshSession(token, utcnow)]
        /\ calls' = Append(calls, Call("reset_session", t, 0, token, FALSE,
                                       FreshSession(token, utcnow)))
    /\ minted' = minted + 1
    /\ SessionFrame
    /\ UNCHANGED utcnow

\* SessionManager.reset_session, lines 160-166.
ResetSession(t) ==
    /\ Len(calls) < MaxCalls
    /\ sessions' = [sessions EXCEPT ![t] = FreshSession(Uuid4(minted), utcnow)]
    /\ minted' = minted + 1
    /\ calls' = Append(calls, Call("reset_session", t, 0, Uuid4(minted), FALSE,
                                   FreshSession(Uuid4(minted), utcnow)))
    /\ SessionFrame
    /\ UNCHANGED utcnow

\* GetSessionInfo that counts as a use of the session it returns.
GetSessionInfoTouches(t) ==
    /\ Len(calls) < MaxCalls
    /\ sessions' = IF sessions[t] # NoSession
                   THEN [sessions EXCEPT ![t].last_used = utcnow]
                   ELSE sessions
    /\ calls' = Append(calls, Call("get_session_info", t, 0, 0, FALSE, sessions'[t]))
    /\ SessionFrame
    /\ UNCHANGED <<utcnow, minted>>

\* SessionManager.get_session_info, line 170.
GetSessionInfo(t) ==
    /\ Len(calls) < MaxCalls
    /\ calls' = Append(calls, Call("get_session_info", t, 0, 0, FALSE, sessions[t]))
    /\ SessionFrame
    /\ UNCHANGED <<sessions, utcnow, minted>>

\* UpdateCost that creates the session it does not find.
UpdateCostCreates(t, cost) ==
    /\ Len(calls) < MaxCalls
    /\ sessions' = IF sessions[t] # NoSession
                   THEN [sessions EXCEPT ![t].total_cost = @ + cost]
                   ELSE [sessions EXCEPT ![t] =
                            [FreshSession(Uuid4(minted), utcnow) EXCEPT !.total_cost = cost]]
    /\ calls' = Append(calls, Call("update_cost", t, cost, 0, FALSE, sessions'[t]))
    /\ SessionFrame
    /\ UNCHANGED <<utcnow, minted>>

\* SessionManager.update_cost, lines 174-175.
UpdateCost(t, cost) ==
    /\ Len(calls) < MaxCalls
    /\ sessions' = IF sessions[t] # NoSession
                   THEN [sessions EXCEPT ![t].total_cost = @ + cost]
                   ELSE sessions
    /\ calls' = Append(calls, Call("update_cost", t, cost, 0, FALSE, sessions'[t]))
    /\ SessionFrame
    /\ UNCHANGED <<utcnow, minted>>

NextSessions ==
    \/ Tick
    \/ \E t \in Threads : GetOrCreateSession(t)
    \/ \E t \in Threads : ResetSession(t)
    \/ \E t \in Threads : GetSessionInfo(t)
    \/ \E t \in Threads, cost \in Amounts : UpdateCost(t, cost)

SessionSpec == Init /\ [][NextSessions]_vars

(* ---- OracleAgent._handle_agent_conversation and new_session_command ---- *)
TurnFrame ==
    UNCHANGED <<clock, auto_respond, auto_remediate, incidents, active_incidents,
                handlers, runs, reported, approvalVars, calls, executorVars,
                delivery>>

\* One coroutine: a conversational turn (kind "message") or a /new-session
\* command.  session_id and is_resume are the locals of line 802 (or
\* new_session_id of line 1449); footer: line 875 will send the cost footer;
\* cmd: the command of the invocation the turn issued.
\* The arguments of the execute call of lines 845-851.
TurnArgs(session_id, is_resume) ==
    [disallowed_tools |-> GetDisallowedTools, skip_permissions |-> FALSE,
     session_id |-> session_id, resume_session |-> is_resume, timeout |-> 180]

NewTurn(kind, pc, thread, session_id) ==
    [kind |-> kind, pc |-> pc, thread |-> thread, session_id |-> session_id,
     is_resume |-> FALSE, footer |-> FALSE, cmd |-> <<>>]

\* on_message calls _handle_agent_conversation for a message in the agent
\* channel: line 798, suspended in entering message.channel.typing().
MessageArrives ==
    /\ Len(turns) < MaxTurns
    /\ turns' = Append(turns, NewTurn("message", "typing", AgentChannel, 0))
    /\ TurnFrame
    /\ UNCHANGED <<total_cost_usd, sessions, utcnow, minted, ledger>>

\* typing() is entered: lines 802-851, get_or_create_session and the
\* invocation issued with its token and resume flag.
TurnBegins(k) ==
    /\ turns[k].pc = "typing"
    /\ LET t == turns[k].thread IN
       IF LiveAt(sessions[t], utcnow)
       THEN /\ sessions' = [sessions EXCEPT ![t] = Resumed(@, utcnow)]
            /\ ledger' = [ledger EXCEPT ![t].gets = @ + 1]
            /\ turns' = [turns EXCEPT ![k].pc = "invoke",
                                      ![k].session_id = sessions[t].session_id,
                                      ![k].is_resume = TRUE,
                                      ![k].cmd = Cmd(TurnArgs(sessions[t].session_id,
                                                              TRUE), TRUE)]
            /\ UNCHANGED minted
       ELSE /\ sessions' = [sessions EXCEPT ![t] = FreshSession(Uuid4(minted), utcnow)]
            /\ ledger' = [ledger EXCEPT ![t] = [by |-> "get_or_create_session",
                                                 gets |-> 1, amounts |-> 0]]
            /\ turns' = [turns EXCEPT ![k].pc = "invoke",
                                      ![k].session_id = Uuid4(minted),
                                      ![k].is_resume = FALSE,
                                      ![k].cmd = Cmd(TurnArgs(Uuid4(minted), FALSE),
                                                     TRUE)]
            /\ minted' = minted + 1
    /\ TurnFrame
    /\ UNCHANGED <<total_cost_usd, utcnow>>

\* CostAdded with the amount assigned instead of added.
CostAddedOverwrites(session, cost) == [session EXCEPT !.total_cost = cost]

\* self.sessions[channel_id].total_cost += cost, line 175.
CostAdded(session, cost) == [session EXCEPT !.total_cost = @ + cost]

\* The invocation returned: lines 853-854, then the first send of lines
\* 856-883, with no suspension between lines 853 and 854.
TurnInvocationReturns(k, s, c) ==
    /\ turns[k].pc = "invoke"
    /\ total_cost_usd' = total_cost_usd + c
    /\ LET t == turns[k].thread IN
       IF sessions[t] # NoSession
       THEN /\ sessions' = [sessions EXCEPT ![t] = CostAdded(@, c)]
            /\ ledger' = [ledger EXCEPT ![t].amounts = @ + c]
       ELSE UNCHANGED <<sessions, ledger>>
    /\ turns' = [turns EXCEPT ![k].pc = "reply", ![k].footer = s /\ c > 0]
    /\ TurnFrame
    /\ UNCHANGED <<utcnow, minted>>

\* The replies of lines 860-871 or 881 returned: lines 874-879.
TurnReplyReturns(k) ==
    /\ turns[k].pc = "reply"
    /\ turns' = [turns EXCEPT ![k].pc = IF turns[k].footer THEN "footer" ELSE "done"]
    /\ TurnFrame
    /\ UNCHANGED <<total_cost_usd, sessions, utcnow, minted, ledger>>

\* The cost footer send of line 876 returned: the turn ends.
TurnFooterReturns(k) ==
    /\ turns[k].pc = "footer"
    /\ turns' = [turns EXCEPT ![k].pc = "done"]
    /\ TurnFrame
    /\ UNCHANGED <<total_cost_usd, sessions, utcnow, minted, ledger>>

\* new_session_command, lines 1448-1455: reset_session, then suspended in
\* the send of the reply.
NewSessionCommand(t) ==
    /\ Len(turns) < MaxTurns
    /\ sessions' = [sessions EXCEPT ![t] = FreshSession(Uuid4(minted), utcnow)]
    /\ ledger' = [ledger EXCEPT ![t] = [by |-> "reset_session",
                                         gets |-> 0, amounts |-> 0]]
    /\ minted' = minted + 1
    /\ turns' = Append(turns, NewTurn("new-session", "send", t, Uuid4(minted)))
    /\ TurnFrame
    /\ UNCHANGED <<total_cost_usd, utcnow>>

\* The reply of line 1455 returned: the command ends.
CommandSendReturns(k) ==
    /\ turns[k].pc = "send"
    /\ turns' = [turns EXCEPT ![k].pc = "done"]
    /\ TurnFrame
    /\ UNCHANGED <<total_cost_usd, sessions, utcnow, minted, ledger>>

TurnSends == {"typing", "reply", "footer", "send"}

\* A transport call of a turn or of the command raised: neither catches it.
TurnSendRaises(k) ==
    /\ turns[k].pc \in TurnSends
    /\ turns' = [turns EXCEPT ![k].pc = "raised"]
    /\ TurnFrame
    /\ UNCHANGED <<total_cost_usd, sessions, utcnow, minted, ledger>>

NextTurns ==
    \/ Tick
    \/ MessageArrives
    \/ \E k \in 1..Len(turns) : TurnBegins(k)
    \/ \E k \in 1..Len(turns), s \in BOOLEAN, c \in {0} \cup Amounts :
           TurnInvocationReturns(k, s, c)
    \/ \E k \in 1..Len(turns) : TurnReplyReturns(k)
    \/ \E k \in 1..Len(turns) : TurnFooterReturns(k)
    \/ \E t \in Threads : NewSessionCommand(t)
    \/ \E k \in 1..Len(turns) : CommandSendReturns(k)
    \/ \E k \in 1..Len(turns) : TurnSendRaises(k)

TurnSpec == Init /\ [][NextTurns]_vars

(* ---- ClaudeCodeExecutor.execute ---- *)
ExecFrame ==
    UNCHANGED <<clock, auto_respond, auto_remediate, total_cost_usd, incidents,
                active_incidents, handlers, runs, reported, approvalVars, sessionVars,
                environment, delivery>>

\* The dictionary of lines 370-377, for a decoded object.
JsonResult(returncode, stdout_text, result) ==
    [success |-> returncode = 0,
     output |-> Get(result, "result", stdout_text),
     cost |-> Get(result, "cost_usd", 0),
     session_id |-> Get(result, "session_id", NoText),
     num_turns |-> Get(result, "num_turns", 0),
     raw |-> result]

\* Error details.  None is the value of line 380 when stderr is empty; a
\* message is a record that names its text and keeps what the text embeds.
None == [kind |-> "None"]

\* text[:500]
Prefix(text) ==
    SubSeq(text, 1, IF Len(text) < PrefixLimit THEN Len(text) ELSE PrefixLimit)

\* error_msg of lines 380-383 with the exit code left out of the message.
ErrorMsgWithoutExitCode(returncode, stdout_text, stderr_text) ==
    IF stderr_text # NoText
    THEN [kind |-> "stderr_text", text |-> stderr_text]
    ELSE IF returncode # 0
         THEN [kind |-> "Command failed", text |-> "Command failed"]
         ELSE None

\* error_msg of lines 380-383.
ErrorMsg(returncode, stdout_text, stderr_text) ==
    IF stderr_text # NoText
    THEN [kind |-> "stderr_text", text |-> stderr_text]
    ELSE IF returncode # 0
         THEN IF stdout_text # NoText
              THEN [kind |-> "Command failed (exit code {returncode}). Output: {output}",
                    returncode |-> returncode, output |-> Prefix(stdout_text)]
              ELSE [kind |-> "Command failed with exit code {returncode}",
                    returncode |-> returncode]
         ELSE None

\* The dictionary of lines 384-390.
RawResult(returncode, stdout_text, stderr_text) ==
    [success |-> returncode = 0,
     output |-> stdout_text,
     cost |-> 0,
     session_id |-> NoText,
     error |-> ErrorMsg(returncode, stdout_text, stderr_text)]

\* str(e) of the exceptions line 404 catches.
Str(e) ==
    CASE e = "AttributeError" -> "'int' object has no attribute 'get'"
      [] e = "PermissionError" -> "[Errno 13] Permission denied: 'claude'"
      [] e = "OSError" -> "[Errno 28] No space left on device"
      [] OTHER -> e

\* The except clauses of lines 392-403 alone, without the clause of line 404.
RaisedWithoutCatchAll(e, timeout) ==
    IF e = "TimeoutError"
    THEN [success |-> FALSE, output |-> NoText,
          error |-> [kind |-> "Claude CLI timed out after {timeout} seconds",
                     timeout |-> timeout]]
    ELSE IF e = "FileNotFoundError"
         THEN [success |-> FALSE, output |-> NoText,
               error |-> [kind |-> "Claude CLI not found. Ensure it is installed and in PATH."]]
         ELSE [exception |-> e]

\* The except clauses of lines 392-410 for an exception raised in the try
\* block: the dictionary returned, or the exception when no clause matches.
Raised(e, timeout) ==
    IF e = "TimeoutError"
    THEN [success |-> FALSE, output |-> NoText,
          error |-> [kind |-> "Claude CLI timed out after {timeout} seconds",
                     timeout |-> timeout]]
    ELSE IF e = "FileNotFoundError"
         THEN [success |-> FALSE, output |-> NoText,
               error |-> [kind |-> "Claude CLI not found. Ensure it is installed and in PATH."]]
         ELSE IF IsException(e)
              THEN [success |-> FALSE, output |-> NoText,
                    error |-> [kind |-> "str(e)", text |-> Str(e)]]
              ELSE [exception |-> e]

\* The exception lines 367-390 raise, "none" if they return: result.get of a
\* decoded value that is not an object.
GetRaises(stdout_text) ==
    IF JsonLoads(stdout_text).kind \in {"JSONDecodeError", "dict"}
    THEN "none" ELSE "AttributeError"

\* Lines 367-390 and, for what they raise, 404-410.
Parsed(returncode, stdout_text, stderr_text, timeout) ==
    LET result == JsonLoads(stdout_text) IN
    IF result.kind = "JSONDecodeError"
    THEN RawResult(returncode, stdout_text, stderr_text)
    ELSE IF result.kind = "dict"
         THEN JsonResult(returncode, stdout_text, result)
         ELSE Raised(GetRaises(stdout_text), timeout)

\* execute is over: it returned the dictionary r, or r is an exception that
\* reaches the caller.
Over(call, r) ==
    IF "exception" \in DOMAIN r
    THEN [call EXCEPT !.pc = "raised"]
    ELSE [call EXCEPT !.pc = "returned", !.result = r]

\* execute is called: lines 289-336, up to the await of line 338.  The
\* temporary file is created; written is false when line 325 or 326 raises,
\* which line 328 catches.
ExecuteCalled(args, written) ==
    /\ execution.pc \in {"idle", "returned", "raised"}
    /\ execution.calls < MaxExecutions
    /\ execution' = [IdleExecution EXCEPT !.pc = "spawning",
                                          !.calls = execution.calls + 1,
                                          !.args = args,
                                          !.cmd = Cmd(args, written),
                                          !.system_prompt_file = "exists"]
    /\ ExecFrame

\* execute is called and tempfile.NamedTemporaryFile of line 323 raises e.
TempFileRaises(args, e) ==
    /\ execution.pc \in {"idle", "returned", "raised"}
    /\ execution.calls < MaxExecutions
    /\ execution' = Over([IdleExecution EXCEPT !.calls = execution.calls + 1,
                                               !.args = args,
                                               !.raised = e],
                         Raised(e, args.timeout))
    /\ ExecFrame

\* create_subprocess_exec of line 338 returned the process.
SpawnReturns ==
    /\ execution.pc = "spawning"
    /\ execution' = [execution EXCEPT !.pc = "communicating",
                                      !.process = "running",
                                      !.spawns = @ + 1]
    /\ ExecFrame

\* create_subprocess_exec raised e and the call is made once more.
SpawnRaisesAndRetries(e) ==
    /\ execution.pc = "spawning"
    /\ execution.spawns < 2
    /\ execution' = [execution EXCEPT !.spawns = @ + 1]
    /\ ExecFrame

\* create_subprocess_exec of line 338 raised e.
SpawnRaises(e) ==
    /\ execution.pc = "spawning"
    /\ execution' = Over([execution EXCEPT !.spawns = @ + 1, !.raised = e],
                         Raised(e, execution.args.timeout))
    /\ ExecFrame

\* The process exited and communicate of line 345 returned within the
\* timeout: lines 350-390, with the unlink of line 363.
CommunicateReturns(returncode, stdout_text, stderr_text) ==
    /\ execution.pc = "communicating"
    /\ execution.process = "running"
    /\ execution' = Over([execution EXCEPT !.process = "exited",
                                           !.completed = TRUE,
                                           !.returncode = returncode,
                                           !.stdout_text = stdout_text,
                                           !.stderr_text = stderr_text,
                                           !.system_prompt_file = "deleted",
                                           !.raised = GetRaises(stdout_text)],
                         Parsed(returncode, stdout_text, stderr_text,
                                execution.args.timeout))
    /\ ExecFrame

\* The timeout of line 345 elapsed first: wait_for cancels communicate and
\* raises TimeoutError, which line 392 catches.  No line touches the process
\* or the temporary file.
WaitForTimesOut ==
    /\ execution.pc = "communicating"
    /\ execution.process = "running"
    /\ execution' = Over([execution EXCEPT !.raised = "TimeoutError"],
                         Raised("TimeoutError", execution.args.timeout))
    /\ ExecFrame

\* A process that execute left running exits by itself.
ProcessExitsLater ==
    /\ execution.pc \in {"returned", "raised"}
    /\ execution.process = "running"
    /\ execution' = [execution EXCEPT !.process = "exited"]
    /\ ExecFrame

Arguments ==
    [disallowed_tools : DisallowedLists, skip_permissions : BOOLEAN,
     session_id : SessionIds, resume_session : BOOLEAN, timeout : Timeouts]

NextExec ==
    \/ \E args \in Arguments, written \in BOOLEAN : ExecuteCalled(args, written)
    \/ \E args \in Arguments, e \in {"OSError", "FileNotFoundError"} :
          TempFileRaises(args, e)
    \/ SpawnReturns
    \/ \E e \in {"FileNotFoundError", "PermissionError"} : SpawnRaises(e)
    \/ \E returncode \in ReturnCodes, stdout_text \in Stdouts, stderr_text \in Stderrs :
          CommunicateReturns(returncode, stdout_text, stderr_text)
    \/ WaitForTimesOut
    \/ ProcessExitsLater

ExecSpec == InitAnyEnvironment /\ [][NextExec]_vars

(* ---- Sending a response text: lines 856-871 and 1261-1275 ---- *)
DeliveryFrame ==
    UNCHANGED <<clock, auto_respond, auto_remediate, total_cost_usd, incidents,
                active_incidents, handlers, runs, reported, approvalVars, sessionVars,
                executorVars>>

\* text[i:j] of Python, for 0 <= i <= j.
Slice(text, i, j) == SubSeq(text, i + 1, IF j < Len(text) THEN j ELSE Len(text))

\* The list of slices without the last, shorter one.
ChunksWithoutRemainder(output) ==
    [k \in 1..(Len(output) \div ChunkLimit) |->
        Slice(output, (k - 1) * ChunkLimit, k * ChunkLimit)]

\* [output[i:i+1900] for i in range(0, len(output), 1900)], lines 862 and 1265.
Chunks(output) ==
    [k \in 1..((Len(output) + ChunkLimit - 1) \div ChunkLimit) |->
        Slice(output, (k - 1) * ChunkLimit, k * ChunkLimit)]

\* A message sent: its kind ("chunk", "marker", "single", "cost"), the text
\* it carries, and whether the task header precedes the text and the cost
\* line follows it in the same message.
Message(kind, content, header, footer) ==
    [kind |-> kind, content |-> content, header |-> header, footer |-> footer]

\* What follows the text messages: the cost footer of lines 875-879 when the
\* turn's cost is positive, the cost message of line 1271 after the chunks of
\* /run-task.
AfterText(flow, cost) ==
    IF flow = "task" \/ cost > 0 THEN "cost" ELSE "done"

\* result['success'] is true: lines 857-860 of a turn, 1261-1264 of /run-task.
DeliverBegins(flow, n, cost) ==
    /\ delivery.pc \in {"idle", "done", "raised"}
    /\ delivery.count < MaxDeliveries
    /\ delivery' = [NoDelivery EXCEPT !.flow = flow,
                                      !.count = delivery.count + 1,
                                      !.output = Text(n),
                                      !.cost = cost,
                                      !.pc = IF n > ChunkLimit THEN "chunk" ELSE "single"]
    /\ DeliveryFrame

\* The send of a chunk returned: lines 863-867 of a turn, 1266-1268 of
\* /run-task, whose first chunk follows the header in one message.
ChunkSendReturns ==
    /\ delivery.pc = "chunk"
    /\ LET chunks == Chunks(delivery.output)
           limit == MaxChunks[delivery.flow]
           shown == IF Len(chunks) < limit THEN Len(chunks) ELSE limit
           i == delivery.i
       IN  delivery' =
             [delivery EXCEPT
                !.sent = Append(@, Message("chunk", chunks[i + 1],
                                           delivery.flow = "task" /\ i = 0, FALSE)),
                !.i = i + 1,
                !.pc = IF i + 1 < shown THEN "chunk"
                       ELSE IF Len(chunks) > limit THEN "marker"
                       ELSE AfterText(delivery.flow, delivery.cost)]
    /\ DeliveryFrame

\* The send of the truncation marker returned: lines 868-869 and 1269-1270.
MarkerSendReturns ==
    /\ delivery.pc = "marker"
    /\ delivery' = [delivery EXCEPT
                      !.sent = Append(@, Message("marker", <<>>, FALSE, FALSE)),
                      !.pc = AfterText(delivery.flow, delivery.cost)]
    /\ DeliveryFrame

\* The send of a text within the limit returned: line 871 of a turn; lines
\* 1273-1274 of /run-task, where header, text and cost are one message.
SingleSendReturns ==
    /\ delivery.pc = "single"
    /\ delivery' = [delivery EXCEPT
                      !.sent = Append(@, Message("single", delivery.output,
                                                 delivery.flow = "task",
                                                 delivery.flow = "task")),
                      !.pc = IF delivery.flow = "task" THEN "done"
                             ELSE AfterText("turn", delivery.cost)]
    /\ DeliveryFrame

\* The send of the cost line returned: lines 876-879 and 1271.
CostSendReturns ==
    /\ delivery.pc = "cost"
    /\ delivery' = [delivery EXCEPT
                      !.sent = Append(@, Message("cost", <<>>, FALSE, FALSE)),
                      !.pc = "done"]
    /\ DeliveryFrame

\* The awaited send raises: neither handler catches it.
DeliverySendRaises ==
    /\ delivery.pc \in {"chunk", "marker", "single", "cost"}
    /\ delivery' = [delivery EXCEPT !.pc = "raised"]
    /\ DeliveryFrame

NextDelivery ==
    \/ \E flow \in {"turn", "task"}, n \in OutputLengths, cost \in {0} \cup Amounts :
          DeliverBegins(flow, n, cost)
    \/ ChunkSendReturns
    \/ MarkerSendReturns
    \/ SingleSendReturns
    \/ CostSendReturns
    \/ DeliverySendRaises

DeliverySpec == Init /\ [][NextDelivery]_vars

(* ---- the claims ---- *)
Runs == 1..Len(runs)
Incidents == 1..Len(incidents)
Finished(r) == runs[r].pc \in {"done", "failed", "raised"}
InFlight(r) == runs[r].pc \in {"investigate", "diagnose", "remediate"}
Issued(r) == {runs[r].issued[k] : k \in 1..Len(runs[r].issued)}
StatusOf(r) == incidents[runs[r].rec].status

\* C1: once the investigation invocation of a run has returned success=false,
\* the run issues neither diagnostics nor remediation, and when the run has
\* ended the incident's status is 'error'.
C1_InvestigationFailureIsError ==
    \A r \in Runs :
        runs[r].invOk = "false" =>
            /\ Issued(r) = {"investigate"}
            /\ Finished(r) => StatusOf(r) = "error"

C4_StatusOnlyMovesForward ==
    /\ [][\A i \in Incidents :
             incidents[i].status \in Terminal =>
                 incidents'[i].status = incidents[i].status]_vars
    /\ [](\A r1, r2 \in Runs :
             (r1 # r2 /\ runs[r1].rec # 0 /\ runs[r1].rec = runs[r2].rec) =>
                 Issued(r1) \cap Issued(r2) = {})

\* C5: in every reachable state each incident has at most one invocation in
\* flight.
C5_OneInvocationInFlight ==
    \A i \in Incidents :
        Cardinality({r \in Runs : runs[r].rec = i /\ InFlight(r)}) <= 1

\* C6: every accepted alert gets an id distinct from the id of every other
\* incident created in the run, so every incident created is still the entry
\* stored under its id.
C6_IncidentIdsUnique ==
    /\ \A i, j \in Incidents : i # j => incidents[i].id # incidents[j].id
    /\ \A i \in Incidents : active_incidents[incidents[i].id] = i

\* C7: the task spawned for an alert operates on the incident created for
\* that alert, so tasks spawned for two distinct alerts never share one, and
\* the thread stored in an incident is the one of its own alert.
C7_OwnIncidentRecord ==
    /\ \A r \in Runs :
          (runs[r].alert # 0 /\ runs[r].rec # 0) => runs[r].rec = runs[r].alert
    /\ \A i \in Incidents : incidents[i].thread \in {NoThread, ThreadOf(i)}

\* C8: no exception leaves _investigate_incident, and a run that an exception
\* ended has set the incident's status to 'error'.
C8_FaultsAreCaught ==
    \A r \in Runs :
        /\ runs[r].pc # "raised"
        /\ runs[r].pc = "failed" => runs[r].wrote = "error"

\* C9: an incident whose investigation was started and all of whose runs have
\* ended has one of the terminal statuses (every send and every invocation
\* having returned or raised).
C9_EndedRunsLeaveTerminalStatus ==
    \A i \in Incidents :
        ( /\ \E r \in Runs : runs[r].rec = i
          /\ \A r \in Runs : runs[r].rec = i => Finished(r) )
        => incidents[i].status \in Terminal

\* C10: in every reachable state an incident's cost_usd is the sum of the
\* costs reported by the invocations executed for it.
C10_CostIsSumOfReported ==
    \A i \in Incidents : incidents[i].cost_usd = reported[i]

\* A run completed on the manual-action branch, its remediation skipped, on
\* an incident whose two executed invocations reported 1 each.
C10_Witness ==
    \E r \in Runs :
        /\ runs[r].pc = "done"
        /\ runs[r].issued = <<"investigate", "diagnose">>
        /\ incidents[runs[r].rec].cost_usd = 2
        /\ reported[runs[r].rec] = 2

RECURSIVE SumTo(_, _)
SumTo(seq, n) == IF n = 0 THEN 0 ELSE seq[n] + SumTo(seq, n - 1)

\* C11: whenever every run started so far has ended, by whatever path, the
\* process-wide total_cost_usd is the sum of the costs reported by all the
\* invocations those runs issued: each run added exactly the costs of its own
\* invocations, none omitted and none counted twice.
C11_TotalIsSumOfRunCosts ==
    (\A r \in Runs : Finished(r)) => total_cost_usd = SumTo(reported, Len(reported))

(* ---- the claims about remediate_command and ApprovalView ---- *)
Executions == {k \in 1..Len(rem.issued) : rem.issued[k].kind = "execution"}
TimedOut == view.timer \in {"fired", "ran"}
Decided == view.firstApproved # "None"

\* C12: when the timeout of the view has elapsed and no approve or deny press
\* was made, the request is not approved and has no decider: neither the view
\* nor the waiting command holds an approval or a responder, the command does
\* not go on to the execution, and no execution invocation is issued.
C12_TimeoutIsNotApproval ==
    (TimedOut /\ ~Decided) =>
        /\ view.approved # "True"
        /\ view.responder = NoUser
        /\ rem.approved # "True"
        /\ rem.approver = NoUser
        /\ rem.read \in {"unread", "None", "False"}
        /\ rem.pc \in {"wait", "send_timeout", "done", "raised"}
        /\ Executions = {}

\* The timeout elapsed with no press, on_timeout ran, and the command, which
\* read approved = None when wait() returned, has ended without an execution.
C12_Witness ==
    /\ view.timer = "ran"
    /\ ~Decided
    /\ rem.read = "None"
    /\ rem.pc = "done"
    /\ Executions = {}

\* C13: once an approve or deny press has set the decision, approved and
\* responder of the view keep the values of that first decision, whatever
\* presses and timeout follow, and the values the waiting command reads when
\* wait() returns are those of the first decision.
C13_FirstDecisionStands ==
    Decided =>
        /\ view.approved = view.firstApproved
        /\ view.responder = view.firstResponder
        /\ rem.read # "unread" =>
              /\ rem.read = view.firstApproved
              /\ rem.approver = view.firstResponder

\* C14: an execution invocation is issued only after the analysis returned
\* success=true and with the decision approved, by an approve press or by
\* skip_approval; a failed analysis creates no approval view; and when the
\* decision made is a denial or the timeout elapsed no execution is issued.
C14_ExecutionOnlyWhenApproved ==
    /\ Executions # {} =>
          /\ rem.analysisOk = "true"
          /\ rem.approved = "True"
          /\ \/ rem.skip_approval
             \/ \E p \in 1..Len(presses) : presses[p].kind = "approve"
    /\ rem.analysisOk = "false" => ~view.created
    /\ (view.firstApproved = "False" \/ TimedOut) => Executions = {}

\* C15: with skip_approval=true no view is created, nothing waits and nothing
\* times out; once the analysis has succeeded the decision is approved and
\* attributed to the invoking user, and line 1399 is never evaluated.
C15_BypassSkipsApproval ==
    rem.skip_approval =>
        /\ ~view.created
        /\ presses = <<>>
        /\ view.timer = "armed"
        /\ rem.pc \notin {"send_approval", "wait", "send_timeout"}
        /\ rem.read = "unread"
        /\ rem.analysisOk = "true" => (rem.approved = "True" /\ rem.approver = Invoker)
        /\ rem.analysisOk # "true" => (rem.approved = "unset" /\ Executions = {})

\* A bypassed command has its execution in flight, approved by the invoker,
\* with no view created.
C15_Witness ==
    /\ rem.skip_approval
    /\ rem.pc = "execute"
    /\ rem.approved = "True"
    /\ rem.approver = Invoker
    /\ Executions # {}
    /\ ~view.created

\* C16: every invocation remediate_command issues with skip_permissions=True
\* is issued with the approval already obtained.
C16_SkipPermissionsOnlyAfterApproval ==
    \A k \in 1..Len(rem.issued) :
        rem.issued[k].skip_permissions => rem.issued[k].approved

(* ---- the claims about SessionManager ---- *)
Calls == 1..Len(calls)
TokenOps == {"get_or_create_session", "reset_session"}
IsGet(k) == calls[k].op = "get_or_create_session"
AgeAt(k) == calls[k].at - calls[k].before.last_used

\* Calls i and j are get_or_create_session calls for one channel with no
\* get_or_create_session or reset_session call for that channel between them.
ConsecutiveGets(i, j) ==
    /\ i < j
    /\ IsGet(i)
    /\ IsGet(j)
    /\ calls[i].thread = calls[j].thread
    /\ \A k \in (i + 1)..(j - 1) :
          calls[k].thread = calls[i].thread => calls[k].op \notin TokenOps

\* C17: of two consecutive get_or_create_session calls for a channel, the
\* second made while the age of last_used is below the timeout, the second
\* returns the token of the first with is_resume=true and leaves
\* message_count one above what the first left; a call for a channel with no
\* session returns a token with is_resume=false and leaves message_count 1.
C17_ResumeWithinTimeout ==
    /\ \A i, j \in Calls :
          (ConsecutiveGets(i, j) /\ AgeAt(j) < session_timeout) =>
              /\ calls[j].token = calls[i].token
              /\ calls[j].is_resume
              /\ calls[j].after.message_count = calls[i].after.message_count + 1
    /\ \A j \in Calls :
          (IsGet(j) /\ calls[j].before = NoSession) =>
              /\ calls[j].token # 0
              /\ ~calls[j].is_resume
              /\ calls[j].after.session_id = calls[j].token
              /\ calls[j].after.message_count = 1

\* A channel's first call created a session and a later call, made after
\* time passed but within the timeout, resumed it as its second message.
C17_Witness ==
    \E i, j \in Calls :
        /\ ConsecutiveGets(i, j)
        /\ calls[i].before = NoSession
        /\ AgeAt(j) > 0
        /\ AgeAt(j) < session_timeout
        /\ calls[j].is_resume
        /\ calls[j].after.message_count = 2

\* C18: a get_or_create_session call made when the stored session's age is
\* the timeout or more returns a token other than the stored one with
\* is_resume=false and stores a fresh session with message_count 1 and
\* total_cost 0; and a step that changes the token stored for a channel whose
\* session is that old is a get_or_create_session or reset_session call for
\* that channel.
C18_StaleSessionIsReplaced ==
    /\ [](\A j \in Calls :
            (IsGet(j) /\ calls[j].before # NoSession /\ AgeAt(j) >= session_timeout) =>
                /\ calls[j].token # calls[j].before.session_id
                /\ ~calls[j].is_resume
                /\ calls[j].after = [session_id |-> calls[j].token,
                                     last_used |-> calls[j].at,
                                     message_count |-> 1, total_cost |-> 0])
    /\ [][\A t \in Threads :
            ( /\ sessions[t] # NoSession
              /\ utcnow - sessions[t].last_used >= session_timeout
              /\ sessions'[t].session_id # sessions[t].session_id ) =>
                /\ Len(calls') = Len(calls) + 1
                /\ calls'[Len(calls')].op \in TokenOps
                /\ calls'[Len(calls')].thread = t
                /\ sessions'[t] = calls'[Len(calls')].after]_vars

\* A session that had accumulated cost was replaced by a call made when its
\* age was exactly the timeout.
C18_Witness ==
    \E j \in Calls :
        /\ IsGet(j)
        /\ calls[j].before # NoSession
        /\ calls[j].before.total_cost > 0
        /\ AgeAt(j) = session_timeout
        /\ ~calls[j].is_resume
        /\ sessions[calls[j].thread] = calls[j].after

\* C19: every reset_session call returns a token other than the one stored
\* for the channel before it, whatever the age of that session, and leaves a
\* session with that token, message_count 1 and total_cost 0 stored.
C19_ResetAlwaysMintsNewToken ==
    \A j \in Calls :
        calls[j].op = "reset_session" =>
            /\ calls[j].token # 0
            /\ calls[j].token # calls[j].before.session_id
            /\ calls[j].after.session_id = calls[j].token
            /\ calls[j].after.message_count = 1
            /\ calls[j].after.total_cost = 0
            /\ j = Len(calls) => sessions[calls[j].thread] = calls[j].after

\* A session with two messages, used since and still live, was reset.
C19_Witness ==
    \E j \in Calls :
        /\ calls[j].op = "reset_session"
        /\ calls[j].before.message_count = 2
        /\ AgeAt(j) > 0
        /\ AgeAt(j) < session_timeout
        /\ calls[j].after.message_count = 1

\* C20: a token is returned for one channel only, and once a call for that
\* channel has returned another token the first is never returned again; a
\* resuming call returns the token stored for its channel, and no token is
\* stored for two channels.
C20_SupersededTokenNeverReturned ==
    /\ \A i, j \in Calls :
          ( /\ i < j
            /\ calls[i].op \in TokenOps
            /\ calls[j].op \in TokenOps
            /\ calls[i].token = calls[j].token ) =>
              /\ calls[i].thread = calls[j].thread
              /\ \A k \in i..j :
                    (calls[k].op \in TokenOps /\ calls[k].thread = calls[i].thread) =>
                        calls[k].token = calls[i].token
    /\ \A j \in Calls : calls[j].is_resume => calls[j].token = calls[j].before.session_id
    /\ \A t1, t2 \in Threads :
          (t1 # t2 /\ sessions[t1] # NoSession) =>
              sessions[t1].session_id # sessions[t2].session_id

\* A channel's session expired and was superseded, the new one was resumed,
\* and another channel holds a session of its own.
C20_Witness ==
    /\ Len(calls) = 3
    /\ calls[1].thread = calls[2].thread
    /\ calls[2].thread = calls[3].thread
    /\ \A k \in Calls : IsGet(k)
    /\ ~calls[2].is_resume
    /\ calls[2].before.session_id = calls[1].token
    /\ calls[3].is_resume
    /\ calls[3].token = calls[2].token

\* The last call recorded is a call of the method op made by this step.
CallStep(op) ==
    /\ Len(calls') = Len(calls) + 1
    /\ calls'[Len(calls')].op = op

\* C21: a get_session_info call leaves the session map as it was: token,
\* last_used, message_count and total_cost of every channel's session are
\* unchanged, and no session appears or disappears, whether the channel has a
\* session or not and whatever its age.
C21_GetSessionInfoReadsOnly ==
    [][CallStep("get_session_info") => sessions' = sessions]_vars

\* get_session_info was called twice, for a channel that has no session and
\* for a channel whose session is older than the timeout, and both are as
\* they were.
C21_Witness ==
    \E i, j \in Calls :
        /\ calls[i].op = "get_session_info"
        /\ calls[j].op = "get_session_info"
        /\ calls[i].before = NoSession
        /\ sessions[calls[i].thread] = NoSession
        /\ calls[j].before # NoSession
        /\ AgeAt(j) >= session_timeout
        /\ sessions[calls[j].thread] = calls[j].before

\* C22: an update_cost call with an amount adds the amount to total_cost of
\* the session stored for the channel and changes nothing else of that
\* session nor any other channel's session; with no session stored for the
\* channel it changes nothing.
C22_UpdateCostAddsOnly ==
    [][CallStep("update_cost") =>
          LET c == calls'[Len(calls')] IN
          sessions' = IF sessions[c.thread] = NoSession THEN sessions
                      ELSE [sessions EXCEPT ![c.thread].total_cost = @ + c.amount]]_vars

\* update_cost was called for a channel with no session, which still has
\* none, and for a channel whose session then held the amount.
C22_Witness ==
    \E i, j \in Calls :
        /\ calls[i].op = "update_cost"
        /\ calls[i].before = NoSession
        /\ sessions[calls[i].thread] = NoSession
        /\ calls[j].op = "update_cost"
        /\ calls[j].before # NoSession
        /\ calls[j].amount > 0
        /\ sessions[calls[j].thread].total_cost = calls[j].amount

(* ---- the claims about conversational turns ---- *)
Turns == 1..Len(turns)

\* C23: under every interleaving of conversational turns, for every channel
\* the message_count of the session a turn created and that the channel still
\* stores is the number of get_or_create_session calls made on that session,
\* and the total_cost of the stored session is the sum of the amounts passed
\* to update_cost while it was stored.
C23_NoLostUpdate ==
    \A t \in Threads :
        sessions[t] # NoSession =>
            /\ ledger[t].by = "get_or_create_session" =>
                  sessions[t].message_count = ledger[t].gets
            /\ sessions[t].total_cost = ledger[t].amounts

\* Two turns of the agent channel ran on one session with their invocations
\* in flight together, and both costs are in the session.
C23_Witness ==
    /\ Len(turns) = 2
    /\ \A k \in Turns :
          /\ turns[k].kind = "message"
          /\ turns[k].pc = "done"
          /\ turns[k].session_id = sessions[AgentChannel].session_id
    /\ turns[2].is_resume
    /\ sessions[AgentChannel].message_count = 2
    /\ sessions[AgentChannel].total_cost = 2

(* ---- ClaudeCodeExecutor.execute: claims ---- *)
\* execute is over, by a return or by an exception that reached the caller.
ExecuteOver == execution.pc \in {"returned", "raised"}

\* communicate returned and standard output decodes as JSON, or does not.
Decodes == execution.completed /\ JsonLoads(execution.stdout_text).kind # "JSONDecodeError"
Undecodable == execution.completed /\ JsonLoads(execution.stdout_text).kind = "JSONDecodeError"

\* An error detail is populated: the key is there, and holds a non-empty text.
Populated(result) ==
    /\ "error" \in DOMAIN result
    /\ result.error.kind # "None"
    /\ "text" \in DOMAIN result.error => Len(result.error.text) > 0

\* C24: execute never raises to its caller, and for every failure mode of
\* an invocation (executable missing, timeout, non-zero exit, standard
\* output that does not decode or decodes to something unexpected, any other
\* exception) it returns a result with success=false.
C24_EveryFailureModeFails ==
    /\ execution.pc # "raised"
    /\ (/\ execution.pc = "returned"
        /\ \/ execution.raised # "none"
           \/ execution.completed /\ execution.returncode # 0
           \/ execution.completed /\ JsonLoads(execution.stdout_text).kind # "dict")
       => ~execution.result.success

\* C24, amended: execute never raises to its caller, and returns
\* success=false when an exception was raised in it (executable missing,
\* timeout, a decoded payload that is not an object, any other exception) and
\* when the exit code is non-zero; standard output that does not decode is
\* not a failure by itself.
C24_ExceptionsAndExitCodesFail ==
    /\ execution.pc # "raised"
    /\ (/\ execution.pc = "returned"
        /\ \/ execution.raised # "none"
           \/ execution.completed /\ execution.returncode # 0)
       => ~execution.result.success

C24_Witness ==
    /\ execution.pc = "returned"
    /\ execution.raised = "PermissionError"
    /\ ~execution.result.success

\* C25: every result with success=false carries a populated, non-empty
\* error detail, on every exit path.
C25_FailureCarriesErrorDetail ==
    (execution.pc = "returned" /\ ~execution.result.success)
    => Populated(execution.result)

\* C26: when the subprocess completes and standard output decodes as JSON,
\* whether to an object or not, execute returns success = (exit code = 0),
\* output = the result field or else the raw standard output, cost =
\* cost_usd or 0, session_id = session_id or empty, num_turns = num_turns or 0.
C26_DecodedPayloadFields ==
    Decodes =>
        LET payload == JsonLoads(execution.stdout_text)
            Field(key, default) ==
                IF payload.kind = "dict" /\ key \in DOMAIN payload.items
                THEN payload.items[key] ELSE default
        IN  /\ execution.pc = "returned"
            /\ execution.result.success = (execution.returncode = 0)
            /\ execution.result.output = Field("result", execution.stdout_text)
            /\ "cost" \in DOMAIN execution.result
            /\ execution.result.cost = Field("cost_usd", 0)
            /\ execution.result.session_id = Field("session_id", NoText)
            /\ execution.result.num_turns = Field("num_turns", 0)

\* C27: when the subprocess completes and standard output does not decode
\* as JSON, execute returns success = (exit code = 0), output = the raw
\* standard output, cost = 0, and error = standard error if it is not empty,
\* otherwise, for a non-zero exit code, a message that holds the exit code
\* and a prefix of standard output of at most 500 characters; 'not json'
\* with exit code 0 gives success=true, output='not json', cost=0.
C27_UndecodableOutputIsReturnedRaw ==
    Undecodable =>
        /\ execution.pc = "returned"
        /\ execution.result.success = (execution.returncode = 0)
        /\ execution.result.output = execution.stdout_text
        /\ execution.result.cost = 0
        /\ execution.stderr_text # NoText
           => /\ execution.result.error.kind = "stderr_text"
              /\ execution.result.error.text = execution.stderr_text
        /\ (execution.stderr_text = NoText /\ execution.returncode # 0)
           => /\ "returncode" \in DOMAIN execution.result.error
              /\ execution.result.error.returncode = execution.returncode
              /\ "output" \in DOMAIN execution.result.error
                 => /\ Len(execution.result.error.output) <= 500
                    /\ execution.result.error.output
                       = SubSeq(execution.stdout_text, 1,
                                Len(execution.result.error.output))
        /\ (execution.stdout_text = NotJson /\ execution.returncode = 0)
           => /\ execution.result.success
              /\ execution.result.output = NotJson

C27_Witness ==
    /\ execution.pc = "returned"
    /\ execution.completed
    /\ execution.stdout_text = LongText
    /\ execution.stderr_text = NoText
    /\ execution.returncode = 1
    /\ Len(execution.result.error.output) = 500
    /\ execution.result.output = LongText

\* C28: when the timeout of an invocation expires before the subprocess
\* completes, the subprocess is not left running once execute has returned,
\* and execute returns success=false with a 'timed out' error detail.
C28_TimeoutTerminatesProcess ==
    (ExecuteOver /\ execution.raised = "TimeoutError")
    => /\ execution.process # "running"
       /\ execution.pc = "returned"
       /\ ~execution.result.success
       /\ execution.result.error.kind = "Claude CLI timed out after {timeout} seconds"

\* C29: the temporary system-prompt file that execute created is deleted by
\* the time execute is over, on every outcome of the call.
C29_TempFileDeleted ==
    ExecuteOver => execution.system_prompt_file # "exists"

\* C30: every process invocation a flow issues carries a denied-capability
\* list that includes the interactive-question capability, AskUserQuestion;
\* checked on the invocations of the remediate flow, analysis and execution.
C30_AskUserQuestionAlwaysDenied ==
    \A k \in 1..Len(rem.issued) :
        \E i \in 1..Len(rem.issued[k].disallowed_tools) :
            rem.issued[k].disallowed_tools[i] = "AskUserQuestion"

(* ---- Denied capabilities and the environment: claims ---- *)
\* The set of tools of a disallowed_tools list.
Tools(list) == {list[i] : i \in 1..Len(list)}

\* C31: when the configured environment is anything other than 'dev',
\* whatever its case, every invocation carries Write, Edit and MultiEdit in
\* its denied list; when it is 'dev', the list derived from the environment
\* holds AskUserQuestion alone.  Checked on the invocations of the remediate
\* flow, whose execution invocation carries the environment-derived list.
C31_EditToolsDeniedOutsideDev ==
    \A k \in 1..Len(rem.issued) :
        /\ environment \notin {"dev", "DEV"}
           => {"Write", "Edit", "MultiEdit"} \subseteq Tools(rem.issued[k].disallowed_tools)
        /\ (environment \in {"dev", "DEV"} /\ rem.issued[k].kind = "execution")
           => rem.issued[k].disallowed_tools = <<"AskUserQuestion">>

C31_Witness ==
    /\ environment = "prod"
    /\ \E k \in 1..Len(rem.issued) :
        /\ rem.issued[k].kind = "execution"
        /\ "Write" \in Tools(rem.issued[k].disallowed_tools)

(* ---- Sending a response text: claims ---- *)
IsText(m) == m.kind # "cost"

\* The messages sent that carry the response text or the truncation marker.
TextMessages == SelectSeq(delivery.sent, IsText)

\* Number of 1900-character slices of the text, and how many the flow sends.
SliceCount == (Len(delivery.output) + 1899) \div 1900
SlicesShown ==
    LET limit == IF delivery.flow = "turn" THEN 5 ELSE 3
    IN  IF SliceCount < limit THEN SliceCount ELSE limit

\* The k-th message is the k-th 1900-character slice of the text.
IsSlice(m, k) ==
    /\ m.kind = "chunk"
    /\ Len(m.content) = (IF k < SliceCount THEN 1900
                         ELSE Len(delivery.output) - 1900 * (k - 1))
    /\ \A j \in 1..Len(m.content) : m.content[j] = delivery.output[1900 * (k - 1) + j]

\* The text messages are the slices the flow sends, in order, followed by a
\* truncation marker exactly when slices remain; a text within the limit is
\* one message.  bare: no message carries anything besides its slice.
SlicesSent(bare) ==
    IF Len(delivery.output) > 1900
    THEN /\ Len(TextMessages)
            = SlicesShown + (IF SliceCount > SlicesShown THEN 1 ELSE 0)
         /\ \A k \in 1..SlicesShown :
               /\ IsSlice(TextMessages[k], k)
               /\ bare => ~TextMessages[k].header
         /\ SliceCount > SlicesShown => TextMessages[SlicesShown + 1].kind = "marker"
    ELSE /\ Len(TextMessages) = 1
         /\ TextMessages[1].kind = "single"
         /\ TextMessages[1].content = delivery.output

C33_StatusReportsPhase ==
    \A r \in Runs :
        /\ runs[r].pc = "investigate" => StatusOf(r) = "investigating"
        /\ runs[r].pc = "diagnose" => StatusOf(r) = "diagnosing"
        /\ runs[r].pc = "remediate" => StatusOf(r) = "remediating"

(* ---- ClaudeCodeExecutor.execute: spawning ---- *)
\* C34: each call of execute spawns the external process at most once, on
\* every outcome; when the executable cannot be located the call returns
\* success=false with the not-found error detail after that one attempt.
C34_SpawnsAtMostOnce ==
    /\ execution.spawns <= 1
    /\ (ExecuteOver /\ execution.raised = "FileNotFoundError")
       => /\ execution.pc = "returned"
          /\ ~execution.result.success
          /\ execution.result.error.kind
             = "Claude CLI not found. Ensure it is installed and in PATH."

C34_Witness ==
    /\ execution.pc = "returned"
    /\ execution.raised = "FileNotFoundError"
    /\ execution.spawns = 1
    /\ ~execution.result.success

(* ---- The session of a turn's invocation: claims ---- *)
\* The turns whose invocation has been issued.
Invoked == {k \in Turns : turns[k].kind = "message" /\ turns[k].cmd # <<>>}

HasFlag(cmd, flag) == \E i \in 1..Len(cmd) : cmd[i] = flag

\* C35: the invocation of a conversational turn carries the session token
\* that get_or_create_session returned for the turn, and the resume flag
\* exactly when it returned is_resume=true; a command built without a
\* session token never carries the resume flag.
C35_InvocationCarriesTurnSession ==
    /\ \A k \in Invoked :
          /\ \E i \in 1..(Len(turns[k].cmd) - 1) :
                /\ turns[k].cmd[i] = "--session-id"
                /\ turns[k].cmd[i + 1] = ToString(turns[k].session_id)
          /\ HasFlag(turns[k].cmd, "-r") <=> turns[k].is_resume
    /\ \A args \in Arguments, written \in BOOLEAN :
          args.session_id = 0 => ~HasFlag(Cmd(args, written), "-r")

\* Two turns ran on one session: the first created it, the second resumed it.
C35_Witness ==
    /\ Len(turns) = 2
    /\ Invoked = {1, 2}
    /\ turns[1].session_id = turns[2].session_id
    /\ ~HasFlag(turns[1].cmd, "-r")
    /\ HasFlag(turns[2].cmd, "-r")

Commands(id) == {r \in Runs : runs[r].alert = 0 /\ runs[r].incident_id = id}

\* C37: an incident accepted while auto_respond was false keeps status
\* 'investigating' and gets no process invocation until an /investigate
\* command names its id; an /investigate command with no id or an unknown id
\* creates no task, so it issues no invocation and changes no incident.
C37_DisabledAutoRespondWaitsForCommand ==
    /\ \A i \in Incidents :
          (~handlers[i].accepted_auto /\ Commands(incidents[i].id) = {})
              => /\ incidents[i].status = "investigating"
                 /\ \A r \in Runs : runs[r].rec = i => runs[r].issued = <<>>
    /\ \A r \in Runs :
          runs[r].alert = 0
              => /\ runs[r].incident_id \in Ids
                 /\ active_incidents[runs[r].incident_id] # 0

\* C38: when the invocation of a turn returns with a cost, the session that
\* gains the cost is the one whose token the invocation used, not a session
\* that replaced it in the thread while the invocation was in flight.
C38_CostGoesToTheSessionUsed ==
    [][\A k \in Turns :
          (turns[k].pc = "invoke" /\ turns'[k].pc = "reply")
              => \A t \in Threads :
                    (/\ sessions[t] # NoSession
                     /\ sessions'[t] # NoSession
                     /\ sessions'[t].total_cost > sessions[t].total_cost)
                        => sessions[t].session_id = turns[k].session_id]_vars

\* The turns whose invocation was issued with the token and without the
\* resume flag: the invocation that creates the session of that token.
Creators(token) ==
    {j \in Turns : /\ turns[j].kind = "message"
                   /\ turns[j].pc # "typing"
                   /\ turns[j].session_id = token
                   /\ ~turns[j].is_resume}

\* C39: an invocation that carries the resume flag for a session token is
\* in flight only when the non-resume invocation that first used that token
\* has returned.
C39_ResumeAfterCreationReturned ==
    \A k \in Turns :
        (turns[k].kind = "message" /\ turns[k].pc = "invoke" /\ turns[k].is_resume)
            => \E j \in Creators(turns[k].session_id) : turns[j].pc # "invoke"

====
